---- MODULE Spec2Model ----
(***************************************************************************)
(* Verification model of the browser image generator                       *)
(* (static/js/app.js, promptBuilder.js, api.js, storage.js, config.js).    *)
(*                                                                         *)
(* Text is modelled as a sequence of tokens: every template literal of the *)
(* source is one token (a record with a tag t and the values interpolated  *)
(* into it), and string concatenation is sequence concatenation.  The      *)
(* empty string is the empty sequence.                                     *)
(***************************************************************************)
EXTENDS Integers, Sequences, FiniteSets, TLC

NULL == "null"

\* ------------------------------------------------------------------------
\* config.js
\* ------------------------------------------------------------------------

Categories == {"subtopic_cover", "tutero_ai", "classroom_activity", "context_introduction"}

CommonStyleIds ==
    <<"original", "glossy_3d", "flat_3d", "minimal_clean_3d", "paper_craft",
      "watercolor", "hand_drawn_chalk", "holographic">>

ContextStyleIds ==
    <<"original", "cartoon", "glossy_3d", "flat_3d", "minimal_clean_3d", "paper_craft",
      "watercolor", "hand_drawn_chalk", "holographic">>

StyleName(id) ==
    CASE id = "original" -> "Original"
      [] id = "cartoon" -> "Cartoon"
      [] id = "glossy_3d" -> "Glossy 3D"
      [] id = "flat_3d" -> "Flat 3D"
      [] id = "minimal_clean_3d" -> "Minimal Clean 3D"
      [] id = "paper_craft" -> "Paper-craft"
      [] id = "watercolor" -> "Watercolor"
      [] id = "hand_drawn_chalk" -> "Hand-drawn Chalk"
      [] id = "holographic" -> "Holographic"

\* prompt_template of style id in category c: the empty string for the
\* "original" style of every category but subtopic_cover.
PromptTemplate(c, id) ==
    IF id = "original" /\ c # "subtopic_cover"
    THEN << >>
    ELSE << [t |-> "STYLE_TEMPLATE", category |-> c, style |-> id] >>

StyleEntry(c, id) ==
    [id |-> id, name |-> StyleName(id), prompt_template |-> PromptTemplate(c, id)]

Styles(c) ==
    LET ids == IF c = "context_introduction" THEN ContextStyleIds ELSE CommonStyleIds
    IN  [k \in 1..Len(ids) |-> StyleEntry(c, ids[k])]

LandscapeWidth == 1920
LandscapeHeight == 1080

CONFIG ==
    [categories |->
        [c \in Categories |->
            IF c \in {"subtopic_cover", "context_introduction"}
            THEN [aspect_ratio |-> "16:9", width |-> LandscapeWidth,
                  height |-> LandscapeHeight, styles |-> Styles(c)]
            ELSE [aspect_ratio |-> "9:16", width |-> LandscapeHeight,
                  height |-> LandscapeWidth, styles |-> Styles(c)]],
     api |-> [baseUrl |-> "https://openrouter.ai/api/v1/chat/completions",
              defaultModel |-> "google/gemini-2.5-flash-image"]]

AllStyleIds == {ContextStyleIds[k] : k \in 1..Len(ContextStyleIds)}

\* styles.find(s => s.id === style); NoStyle stands for undefined.
NoStyle == [id |-> NULL, name |-> NULL, prompt_template |-> << >>]

FindStyle(styles, style) ==
    IF \E k \in 1..Len(styles) : styles[k].id = style
    THEN styles[CHOOSE k \in 1..Len(styles) :
                    /\ styles[k].id = style
                    /\ \A j \in 1..(k - 1) : styles[j].id # style]
    ELSE NoStyle

\* ------------------------------------------------------------------------
\* User input texts.  The keyword tests of the prompt builder are regular
\* expressions over the lower-cased text; each sample text below is listed
\* with the tests it matches.
\* ------------------------------------------------------------------------

UserInputs == {"Number patterns, year 1", "Solve linear equations", "A soccer match"}

\* /algebra|equation|expression|variable|solve|linear|.../
IsAlgebra(text) == text \in {"Solve linear equations"}

\* the first matching branch of _getContextAccuracyRules, NULL when none
ContextRule(text) ==
    CASE text = "A soccer match" -> "SOCCER"
      [] OTHER -> NULL

\* ------------------------------------------------------------------------
\* promptBuilder.js : class PromptBuilder
\* ------------------------------------------------------------------------

Tok(tag) == [t |-> tag]

AspectTok(config) ==
    [t |-> "ASPECT_RATIO", aspectRatio |-> config.aspectRatio,
     width |-> config.width, height |-> config.height]

_buildSubtopicPrompt(subtopic, config) ==
    LET selectedStyle == FindStyle(CONFIG.categories["subtopic_cover"].styles, config.style)
        styleTemplate == selectedStyle.prompt_template
        isAlgebra     == IsAlgebra(subtopic)
        textWarning   == [t |-> "ABSOLUTELY NO TEXT ALLOWED", algebraException |-> isAlgebra]
        coreContent   ==
            << [t |-> "CRITICAL TASK", subtopic |-> subtopic, yearLevel |-> config.yearLevel],
               AspectTok(config),
               Tok("MATHEMATICAL ACCURACY IS THE #1 PRIORITY"),
               textWarning,
               Tok("EXTREME SIMPLICITY") >>
    IN  coreContent \o (IF styleTemplate # << >>
                        THEN << Tok("VISUAL STYLE:") >> \o styleTemplate
                        ELSE << >>)

_buildTuteroAIPrompt(context, config) ==
    LET style         == config.style
        selectedStyle == FindStyle(CONFIG.categories["tutero_ai"].styles, style)
        styleTemplate == selectedStyle.prompt_template
        styleSection  ==
            IF style # "original" /\ styleTemplate # << >>
            THEN << Tok("PRIMARY INSTRUCTION - VISUAL STYLE:") >> \o styleTemplate
                    \o << [t |-> "This style MUST be applied to ALL elements", scope |-> "character"] >>
            ELSE << Tok("VISUAL STYLE: Standard 3D character style") >>
        characterInstruction ==
            IF style # "original" THEN Tok("CHARACTER ADAPTATION (CRITICAL)")
                                  ELSE Tok("CHARACTER ACCURACY")
        matchPriority ==
            IF style # "original" THEN Tok("STYLE PRIORITY") ELSE Tok("THE TIE IS MANDATORY")
    IN  styleSection \o
        << [t |-> "SUBJECT: The Tutero AI robot character", context |-> context],
           AspectTok(config),
           characterInstruction,
           matchPriority,
           Tok("NO PEOPLE"),
           Tok("ABSOLUTE RULE: NO TEXT, LABELS, WORDS, OR LETTERS") >>

_buildClassroomPrompt(activity, config) ==
    LET style         == config.style
        selectedStyle == FindStyle(CONFIG.categories["classroom_activity"].styles, style)
        styleTemplate == selectedStyle.prompt_template
        styleSection  ==
            IF style # "original" /\ styleTemplate # << >>
            THEN << Tok("PRIMARY INSTRUCTION - VISUAL STYLE:") >> \o styleTemplate
                    \o << [t |-> "This style MUST be applied to ALL elements", scope |-> "classroom"] >>
            ELSE << Tok("VISUAL STYLE: Vibrant 3D render") >>
        characterInstruction ==
            IF style # "original" THEN Tok("CHARACTER DESIGN (CRITICAL)")
                                  ELSE Tok("CHARACTER DESIGN")
    IN  styleSection \o
        << [t |-> "SUBJECT: The Tutero AI robot character helping students", activity |-> activity],
           AspectTok(config),
           characterInstruction,
           Tok("PHYSICALLY PRESENT"),
           [t |-> "DIVERSE STUDENTS", age |-> config.age],
           Tok("STYLE CONSISTENCY"),
           Tok("ABSOLUTE RULE: NO TEXT, LABELS, WORDS, OR LETTERS") >>

_getContextAccuracyRules(context) ==
    LET rule == ContextRule(context)
    IN  << Tok("CONTEXT-SPECIFIC ACCURACY REQUIREMENTS:") >>
        \o (IF rule # NULL THEN << [t |-> "ACCURACY", rule |-> rule] >> ELSE << >>)
        \o << Tok("GENERAL ACCURACY") >>

_buildContextPrompt(context, config) ==
    LET style           == config.style
        orientationDesc == IF config.width > config.height THEN "LANDSCAPE" ELSE "PORTRAIT"
        selectedStyle   == FindStyle(CONFIG.categories["context_introduction"].styles, style)
        isStyleOverride == selectedStyle # NoStyle /\ selectedStyle.id # "original"
    IN  << Tok("STRICT INSTRUCTION: GENERATE AN IMAGE. DO NOT CHAT."),
           [t |-> "SUBJECT: A scene of", context |-> context],
           [t |-> "ASPECT_RATIO", aspectRatio |-> config.aspectRatio, width |-> config.width,
            height |-> config.height, orientation |-> orientationDesc] >>
        \o (IF isStyleOverride
            THEN << Tok("PRIMARY INSTRUCTION - VISUAL STYLE:") >> \o selectedStyle.prompt_template
                    \o << [t |-> "This style MUST be applied to ALL elements", scope |-> "scene"] >>
            ELSE << Tok("PRIMARY INSTRUCTION - VISUAL STYLE (PHOTOREALISTIC)") >>)
        \o _getContextAccuracyRules(context)
        \o << Tok("CRITICAL - ZERO TOLERANCE FOR TEXT OR GRAPHS"),
              [t |-> "NEGATIVE PROMPT", cartoon |-> (style = "original")] >>

SimplifiedPrompt_NoRule(categoryConfig, userInput, style) ==
    LET selectedStyle == FindStyle(categoryConfig.styles, style)
    IN  << [t |-> "Create an image about:", userInput |-> userInput] >>
        \o (IF style # "original" /\ selectedStyle # NoStyle
            THEN << [t |-> "PRIMARY INSTRUCTION - VISUAL STYLE:", name |-> selectedStyle.name] >>
                 \o selectedStyle.prompt_template
                 \o << [t |-> "This style MUST be applied to ALL elements", scope |-> "image"] >>
            ELSE << >>)
        \o << [t |-> "CRITICAL INSTRUCTION FOR REFERENCE IMAGES:", style |-> style] >>

\* The simplified prompt built when user reference images are attached.
SimplifiedPrompt(categoryConfig, userInput, style) ==
    LET selectedStyle == FindStyle(categoryConfig.styles, style)
    IN  << [t |-> "Create an image about:", userInput |-> userInput],
           Tok("ABSOLUTE RULE: NO TEXT, LABELS, WORDS, OR LETTERS") >>
        \o (IF style # "original" /\ selectedStyle # NoStyle
            THEN << [t |-> "PRIMARY INSTRUCTION - VISUAL STYLE:", name |-> selectedStyle.name] >>
                 \o selectedStyle.prompt_template
                 \o << [t |-> "This style MUST be applied to ALL elements", scope |-> "image"] >>
            ELSE << >>)
        \o << [t |-> "CRITICAL INSTRUCTION FOR REFERENCE IMAGES:", style |-> style] >>

\* The detailed prompt of a category, built when no user reference image is attached.
DetailedPrompt(category, userInput, width, height, aspectRatio, style) ==
    LET base == [width |-> width, height |-> height, aspectRatio |-> aspectRatio, style |-> style]
    IN  CASE category = "subtopic_cover" ->
                _buildSubtopicPrompt(userInput,
                    [width |-> width, height |-> height, aspectRatio |-> aspectRatio,
                     style |-> style, yearLevel |-> "Year 8"])
          [] category = "tutero_ai" -> _buildTuteroAIPrompt(userInput, base)
          [] category = "classroom_activity" ->
                _buildClassroomPrompt(userInput,
                    [width |-> width, height |-> height, aspectRatio |-> aspectRatio,
                     style |-> style, age |-> "middle school"])
          [] category = "context_introduction" -> _buildContextPrompt(userInput, base)
          [] OTHER -> << >>

\* variationIndex undefined is a negative number here; handleGenerate passes i >= 0.
VariationSuffix(variationIndex, totalVariations) ==
    IF variationIndex >= 0 /\ totalVariations > 1
    THEN << [t |-> "VARIATION INSTRUCTION", n |-> variationIndex + 1, of |-> totalVariations] >>
    ELSE << >>

buildPrompt_CoverOnly(category, userInput, options) ==
    LET categoryConfig == CONFIG.categories[category]
        prompt ==
            IF options.hasUserReferenceImages /\ category = "subtopic_cover"
            THEN SimplifiedPrompt(categoryConfig, userInput, options.style)
            ELSE DetailedPrompt(category, userInput, options.width, options.height,
                                options.aspectRatio, options.style)
    IN  prompt \o VariationSuffix(options.variationIndex, options.totalVariations)

\* options: style, variationIndex, totalVariations, width, height, aspectRatio,
\* hasUserReferenceImages (all given by handleGenerate).
buildPrompt(category, userInput, options) ==
    LET categoryConfig == CONFIG.categories[category]
        prompt ==
            IF options.hasUserReferenceImages
            THEN SimplifiedPrompt(categoryConfig, userInput, options.style)
            ELSE DetailedPrompt(category, userInput, options.width, options.height,
                                options.aspectRatio, options.style)
    IN  prompt \o VariationSuffix(options.variationIndex, options.totalVariations)


\* ------------------------------------------------------------------------
\* api.js : class GeminiAPI
\* ------------------------------------------------------------------------

_getAspectRatioParam(width, height) ==
    IF width = 0 \/ height = 0 THEN "1:1"
    ELSE IF 10 * width > 13 * height THEN "16:9"
    ELSE IF 10 * width > 11 * height THEN "4:3"
    ELSE IF 10 * width > 8 * height THEN "1:1"
    ELSE IF 10 * width > 7 * height THEN "3:4"
    ELSE IF 10 * width > 6 * height THEN "2:3"
    ELSE "9:16"

ImageElement(url) == [type |-> "image_url", url |-> url]

\* The instruction block put in front of the prompt.
ReferenceInstructions(systemReferenceImages, userReferenceImages) ==
    IF Len(userReferenceImages) > 0
    THEN << Tok("ABSOLUTE CRITICAL INSTRUCTION - HIGHEST PRIORITY") >>
         \o (IF Len(systemReferenceImages) > 0
             THEN << [t |-> "IMAGE ORDER:", first |-> Len(systemReferenceImages),
                      last |-> Len(userReferenceImages)] >>
             ELSE << [t |-> "The attached image(s) are USER REFERENCE IMAGES",
                      attached |-> Len(userReferenceImages)] >>)
         \o << Tok("YOUR PRIMARY TASK: CREATE A SIMILAR IMAGE"),
               Tok("MANDATORY REFERENCE GUIDELINES:"),
               Tok("ABSOLUTE TEXT PROHIBITION:") >>
    ELSE IF Len(systemReferenceImages) > 0
    THEN << Tok("REFERENCE IMAGES: The attached images show the exact character design") >>
    ELSE << >>

generateImage_UserFirst(params, apiKey) ==
    LET effectiveModel == IF params.model # NULL THEN params.model ELSE CONFIG.api.defaultModel
        allReferences  == params.userReferenceImages \o params.systemReferenceImages
        images         == [k \in 1..Len(allReferences) |-> ImageElement(allReferences[k])]
        enhancedPrompt == ReferenceInstructions(params.systemReferenceImages,
                                                params.userReferenceImages) \o params.prompt
        content        == images \o << [type |-> "text", text |-> enhancedPrompt] >>
        payload        ==
            [model |-> effectiveModel,
             content |-> content,
             image_config |-> [aspect_ratio |-> _getAspectRatioParam(params.width, params.height),
                               width |-> params.width, height |-> params.height]]
    IN  [url |-> CONFIG.api.baseUrl, method |-> "POST",
         Authorization |-> apiKey, body |-> payload]

\* The request generateImage sends: fetch(CONFIG.api.baseUrl, {POST, headers, body}).
\* params: prompt, category, model, width, height, userReferenceImages,
\* systemReferenceImages.
generateImage(params, apiKey) ==
    LET effectiveModel == IF params.model # NULL THEN params.model ELSE CONFIG.api.defaultModel
        allReferences  == params.systemReferenceImages \o params.userReferenceImages
        images         == [k \in 1..Len(allReferences) |-> ImageElement(allReferences[k])]
        enhancedPrompt == ReferenceInstructions(params.systemReferenceImages,
                                                params.userReferenceImages) \o params.prompt
        content        == images \o << [type |-> "text", text |-> enhancedPrompt] >>
        payload        ==
            [model |-> effectiveModel,
             content |-> content,
             image_config |-> [aspect_ratio |-> _getAspectRatioParam(params.width, params.height),
                               width |-> params.width, height |-> params.height]]
    IN  [url |-> CONFIG.api.baseUrl, method |-> "POST",
         Authorization |-> apiKey, body |-> payload]

categoryMap(category) ==
    CASE category = "subtopic_cover" -> << "Chalk&Board.png", "Clean3D.png", "Glossy3D.png" >>
      [] category = "tutero_ai" -> << "TuteroAI.png" >>
      [] category = "classroom_activity" -> << "cl1.png", "cl2.png" >>
      [] category = "context_introduction" -> << "rugby_intro.png", "vol_intro.png" >>
      [] OTHER -> << >>

fetchReferenceImagesRequests_WithKey(category, apiKey) ==
    LET filenames == categoryMap(category)
    IN  { [url |-> "reference_images/" \o category \o "/images/" \o filenames[k],
           method |-> "GET", Authorization |-> apiKey] : k \in 1..Len(filenames) }

\* The requests fetchReferenceImages sends: fetch(baseDir + filename), no options.
fetchReferenceImagesRequests(category, apiKey) ==
    LET filenames == categoryMap(category)
    IN  { [url |-> "reference_images/" \o category \o "/images/" \o filenames[k],
           method |-> "GET", Authorization |-> NULL] : k \in 1..Len(filenames) }

RECURSIVE KeepOk(_, _, _)
KeepOk(filenames, ok, k) ==
    IF k > Len(filenames) THEN << >>
    ELSE (IF k \in ok THEN << filenames[k] >> ELSE << >>) \o KeepOk(filenames, ok, k + 1)

\* The data URLs fetchReferenceImages returns when exactly the fetches of the
\* files at the positions in ok succeed.
fetchReferenceImages(category, ok) == KeepOk(categoryMap(category), ok, 1)

\* ------------------------------------------------------------------------
\* app.js : the request handleGenerate builds for image i of a batch
\* ------------------------------------------------------------------------

Dimensions_PortraitOnly(genState) ==
    LET categoryConfig       == CONFIG.categories[genState.category]
        width                == categoryConfig.width
        height               == categoryConfig.height
        isCurrentlyLandscape == width > height
        wantsLandscape       == genState.orientation = "landscape"
    IN  IF isCurrentlyLandscape /\ ~wantsLandscape
        THEN [width |-> height, height |-> width]
        ELSE [width |-> width, height |-> height]

\* width and height after the orientation swap
Dimensions(genState) ==
    LET categoryConfig       == CONFIG.categories[genState.category]
        width                == categoryConfig.width
        height               == categoryConfig.height
        isCurrentlyLandscape == width > height
        wantsLandscape       == genState.orientation = "landscape"
    IN  IF (isCurrentlyLandscape /\ ~wantsLandscape) \/ (~isCurrentlyLandscape /\ wantsLandscape)
        THEN [width |-> height, height |-> width]
        ELSE [width |-> width, height |-> height]

AspectRatioStr(dim) == IF dim.width > dim.height THEN "16:9" ELSE "9:16"

FinalPrompt(genState, i) ==
    LET dim == Dimensions(genState)
    IN  buildPrompt(genState.category, genState.promptText,
            [style |-> genState.style, variationIndex |-> i, totalVariations |-> genState.count,
             width |-> dim.width, height |-> dim.height, aspectRatio |-> AspectRatioStr(dim),
             hasUserReferenceImages |-> Len(genState.referenceImages) > 0])

ImageParams(genState, systemReferences, i) ==
    LET dim == Dimensions(genState)
    IN  [prompt |-> FinalPrompt(genState, i),
         category |-> genState.category,
         model |-> genState.model,
         width |-> dim.width, height |-> dim.height,
         userReferenceImages |-> genState.referenceImages,
         systemReferenceImages |-> systemReferences]


\* ------------------------------------------------------------------------
\* Bounds and input domains
\* ------------------------------------------------------------------------

MaxCount == 2        \* largest value of the count selects
MaxRefs == 1         \* most user reference images attached at once
MaxBatches == 2      \* batches started in one session
MaxRefines == 2      \* refinements started in one session
MaxRefineBatches == 1   \* batches started in one session of the localStorage build
MaxChanges == 1      \* changes the user makes to the settings in one session

Orientations == {"landscape", "portrait"}
Models == {"google/gemini-2.5-flash-image", "google/gemini-3-pro-image-preview"}
Keys == {"sk-or-v1-secret"}
UserImages == {"data:user-a", "data:user-b"}
Urls == {"data:gen-1", "data:gen-2"}
SessionUrls == {"data:gen-1"}     \* image urls the API returns in a session

RECURSIVE SeqsUpTo(_, _)
SeqsUpTo(S, n) ==
    IF n = 0 THEN { << >> }
    ELSE SeqsUpTo(S, n - 1) \cup
         { Append(q, x) : q \in { r \in SeqsUpTo(S, n - 1) : Len(r) = n - 1 }, x \in S }

VARIABLES
    state,          \* the state object of app.js
    dom,            \* values of the input elements and buttons app.js reads and writes
    api,            \* the GeminiAPI instance
    storage,        \* the HistoryStorage instance and its IndexedDB database
    localStorage,   \* window.localStorage
    initPc,         \* position of the asynchronous initHistory()
    gen,            \* the running handleGenerate(): its position and local variables
    net,            \* the network requests in flight
    clock,          \* the value Date.now() returns
    returned,       \* log: the (historyId, index, url) the API returned to batches
    changes,        \* number of changes the user has made to the settings
    refining,       \* the running handleRefine() calls and how many were started
    persisted,      \* log: the records earlier sessions left in the store or the legacy list
    probe           \* latest call of a specification that drives the pure functions

vars == << state, dom, api, storage, localStorage, initPc, gen, net, clock, returned,
          changes, probe, refining, persisted >>


\* ------------------------------------------------------------------------
\* History records
\* ------------------------------------------------------------------------

\* An id is the tuple of the parts the source concatenates: <<Date.now(), suffix>>
\* (app.js), <<Date.now()>> for the numeric ids of the localStorage era.  NoId
\* stands for null.
NoId == << >>

\* values of Math.random().toString(36).substr(2, 9) in this session
RandomSuffixes == {"k3x"}

HistoryItem(id, timestamp, prompt, category, count, style, orientation, model, referenceImages) ==
    [id |-> id, timestamp |-> timestamp, prompt |-> prompt, category |-> category,
     count |-> count, style |-> style, orientation |-> orientation, model |-> model,
     referenceImages |-> referenceImages, images |-> << >>]

Image(index, url) == [index |-> index, url |-> url]

\* A record an earlier session left in IndexedDB: a batch of two images, from a
\* reference image, whose second request failed.
Persisted1 ==
    [HistoryItem(<<0, "9qz">>, 0, "A soccer match", "tutero_ai", 2, "paper_craft",
                 "portrait", CONFIG.api.defaultModel, << "data:user-a" >>)
        EXCEPT !.images = << Image(1, "data:gen-2") >>]

PersistedStores == { {}, {Persisted1} }

\* A record the localStorage build left under the key imageGenHistory: it has no
\* style, orientation, model or referenceImages.
Legacy1 ==
    [id |-> <<0>>, timestamp |-> 0, prompt |-> "A soccer match", category |-> "tutero_ai",
     count |-> 1, style |-> NULL, orientation |-> NULL, model |-> NULL,
     referenceImages |-> << >>, images |-> << Image(1, "data:gen-1") >>]

LegacyLists == { << >>, << Legacy1 >> }

\* What the user has put into the form of the generate studio by the time
\* indexedDB.open returns: nothing, or a category and a prompt.
BlankForm == [category |-> NULL, prompt |-> ""]
FilledForm == [category |-> "context_introduction", prompt |-> "A soccer match"]

StateInit(key) ==
    [category |-> NULL, orientation |-> "landscape", count |-> 1,
     model |-> "google/gemini-2.5-flash-image", generatedImages |-> << >>,
     editingIndex |-> 0, history |-> << >>, currentHistoryId |-> NoId,
     activeGenerationId |-> NoId, style |-> "original", referenceImages |-> << >>,
     apiKey |-> key, activeStudio |-> "generate", editStudioImage |-> NULL]

DomInit ==
    [prompt |-> "", editPrompt |-> "", editCount |-> 1,
     editModel |-> "google/gemini-2.5-flash-image",
     generateBtnDisabled |-> FALSE, editGenerateBtnDisabled |-> FALSE,
     resultsSummary |-> 0, refineInput |-> "", editModalHidden |-> TRUE]

GenIdle ==
    [pc |-> "idle", isEdit |-> FALSE, genState |-> NULL, historyId |-> NoId,
     startIndex |-> 0, i |-> 0, systemReferences |-> << >>, request |-> NULL]

\* Date.now() when the session starts: later than every persisted record
SessionStart == Persisted1.timestamp + 1

\* The state after the module has run init(): initHistory() is waiting for
\* indexedDB.open.
AppInit(key, store, legacy, form) ==
    /\ state = [StateInit(key) EXCEPT !.category = form.category]
    /\ dom = [DomInit EXCEPT !.prompt = form.prompt]
    /\ api = [apiKey |-> key]
    /\ storage = [db |-> FALSE, store |-> store, queue |-> << >>, waiting |-> << >>]
    /\ localStorage = [imageGenHistory |-> legacy, openrouter_key |-> key]
    /\ initPc = "opening"
    /\ gen = GenIdle
    /\ net = {}
    /\ clock = SessionStart
    /\ returned = {}
    /\ changes = 0
    /\ refining = [calls |-> {}, started |-> 0]
    /\ persisted = store \cup { legacy[k] : k \in 1..Len(legacy) }

\* ------------------------------------------------------------------------
\* Specification SpecPrompt: the prompt builder and the API client, called with
\* every input of the bounded domains.
\* ------------------------------------------------------------------------

appVars == << state, dom, storage, localStorage, initPc, gen, clock, returned, changes,
             refining, persisted >>

\* showNextSections keeps state.style among the styles of state.category
GenStates ==
    { g \in [promptText : UserInputs, category : Categories, count : 1..MaxCount,
             orientation : Orientations, style : AllStyleIds, model : Models,
             referenceImages : SeqsUpTo(UserImages, MaxRefs)] :
        FindStyle(CONFIG.categories[g.category].styles, g.style) # NoStyle }

Wire(request) == [url |-> request.url, method |-> request.method,
                  Authorization |-> request.Authorization]

ProbeInputs == { [op |-> "input", genState |-> g, i |-> i] :
                     g \in GenStates, i \in 0..(MaxCount - 1) }

ProbeBuildPrompt ==
    /\ probe.op = "input"
    /\ probe' = [op |-> "buildPrompt", genState |-> probe.genState, i |-> probe.i,
                 prompt |-> FinalPrompt(probe.genState, probe.i)]
    /\ net' = {}
    /\ UNCHANGED << api, appVars >>

\* fetchReferenceImages(category) followed by generateImage, as handleGenerate
\* calls them for image i; ok are the reference files whose fetch succeeds.
ProbeGenerateImage ==
    /\ probe.op = "input"
    /\ \E ok \in SUBSET (1..Len(categoryMap(probe.genState.category))) :
        LET g == probe.genState
            systemReferences == fetchReferenceImages(g.category, ok)
            params  == ImageParams(g, systemReferences, probe.i)
            request == generateImage(params, api.apiKey)
        IN  /\ probe' = [op |-> "generateImage", genState |-> g, i |-> probe.i,
                         params |-> params, request |-> request]
            /\ net' = { Wire(request) }
    /\ UNCHANGED << api, appVars >>

ProbeFetchReferenceImages ==
    /\ probe.op = "input"
    /\ probe' = [op |-> "fetchReferenceImages", category |-> probe.genState.category]
    /\ net' = fetchReferenceImagesRequests(probe.genState.category, api.apiKey)
    /\ UNCHANGED << api, appVars >>

\* updateApiKey of setupApiKeys: the key typed into the key field
ProbeUpdateApiKey ==
    /\ probe.op = "input"
    /\ \E key \in Keys \cup {""} :
        /\ key # api.apiKey
        /\ api' = [apiKey |-> key]
    /\ UNCHANGED << probe, net, appVars >>

PromptInit ==
    /\ AppInit("", {}, << >>, BlankForm)
    /\ probe \in { p \in ProbeInputs : p.i < p.genState.count }

PromptNext ==
    \/ ProbeBuildPrompt
    \/ ProbeGenerateImage
    \/ ProbeFetchReferenceImages
    \/ ProbeUpdateApiKey

SpecPrompt == PromptInit /\ [][PromptNext]_vars


\* ------------------------------------------------------------------------
\* Properties of the prompt builder and the API client (under SpecPrompt)
\* ------------------------------------------------------------------------

Tags(text) == { text[k].t : k \in 1..Len(text) }

\* template occurs in text as a contiguous run of tokens
ContainsRun(text, template) ==
    \E at \in 0..Len(text) :
        /\ at + Len(template) <= Len(text)
        /\ \A k \in 1..Len(template) : text[at + k] = template[k]

\* tags that only the detailed prompt of a category carries
CategorySections(category) ==
    CASE category = "subtopic_cover" ->
            {"CRITICAL TASK", "MATHEMATICAL ACCURACY IS THE #1 PRIORITY",
             "ABSOLUTELY NO TEXT ALLOWED", "EXTREME SIMPLICITY", "VISUAL STYLE:"}
      [] category = "tutero_ai" ->
            {"SUBJECT: The Tutero AI robot character", "VISUAL STYLE: Standard 3D character style",
             "CHARACTER ADAPTATION (CRITICAL)", "CHARACTER ACCURACY", "STYLE PRIORITY",
             "THE TIE IS MANDATORY", "NO PEOPLE"}
      [] category = "classroom_activity" ->
            {"SUBJECT: The Tutero AI robot character helping students",
             "VISUAL STYLE: Vibrant 3D render", "CHARACTER DESIGN (CRITICAL)",
             "CHARACTER DESIGN", "PHYSICALLY PRESENT", "DIVERSE STUDENTS", "STYLE CONSISTENCY"}
      [] category = "context_introduction" ->
            {"STRICT INSTRUCTION: GENERATE AN IMAGE. DO NOT CHAT.", "SUBJECT: A scene of",
             "PRIMARY INSTRUCTION - VISUAL STYLE (PHOTOREALISTIC)",
             "CONTEXT-SPECIFIC ACCURACY REQUIREMENTS:", "ACCURACY", "GENERAL ACCURACY",
             "CRITICAL - ZERO TOLERANCE FOR TEXT OR GRAPHS", "NEGATIVE PROMPT"}

AllCategorySections == UNION { CategorySections(c) : c \in Categories }

\* the detailed prompt handleGenerate's options select for genState g
DetailedOf(g) ==
    LET dim == Dimensions(g)
    IN  DetailedPrompt(g.category, g.promptText, dim.width, dim.height,
                       AspectRatioStr(dim), g.style)

HasRefs(g) == Len(g.referenceImages) > 0

\* C3 as stated: buildPrompt picks the template from hasUserReferenceImages alone;
\* with reference images the result is the simplified prompt, free of every
\* category-specific section and, for style "original", the same for every
\* category; without, the result is exactly the category's detailed prompt.
C3_AsStated ==
    probe.op = "buildPrompt" =>
        LET g == probe.genState
        IN  IF HasRefs(g)
            THEN /\ probe.prompt = SimplifiedPrompt(CONFIG.categories[g.category],
                                                    g.promptText, g.style)
                 /\ Tags(probe.prompt) \cap AllCategorySections = {}
                 /\ g.style = "original" =>
                        \A c \in Categories :
                            FinalPrompt([g EXCEPT !.category = c], probe.i) = probe.prompt
            ELSE probe.prompt = DetailedOf(g)

\* C3 amended: as C3, the chosen template being followed by the variation
\* instruction (k/n) whenever the batch has more than one image.
C3_TemplateChoice ==
    probe.op = "buildPrompt" =>
        LET g == probe.genState
        IN  IF HasRefs(g)
            THEN /\ probe.prompt = SimplifiedPrompt(CONFIG.categories[g.category],
                                                    g.promptText, g.style)
                                   \o VariationSuffix(probe.i, g.count)
                 /\ Tags(probe.prompt) \cap AllCategorySections = {}
                 /\ g.style = "original" =>
                        \A c \in Categories :
                            FinalPrompt([g EXCEPT !.category = c], probe.i) = probe.prompt
            ELSE /\ probe.prompt = DetailedOf(g) \o VariationSuffix(probe.i, g.count)
                 /\ "Create an image about:" \notin Tags(probe.prompt)
                 /\ \A c \in Categories \ {g.category} :
                        Tags(probe.prompt) \cap (CategorySections(c) \ CategorySections(g.category)) = {}

C3_Witness ==
    /\ probe.op = "buildPrompt"
    /\ ~HasRefs(probe.genState)
    /\ probe.genState.count > 1
    /\ probe.i = 1
    /\ probe.genState.category = "context_introduction"

NoTextRules ==
    {"ABSOLUTE RULE: NO TEXT, LABELS, WORDS, OR LETTERS", "ABSOLUTELY NO TEXT ALLOWED",
     "CRITICAL - ZERO TOLERANCE FOR TEXT OR GRAPHS"}

RequestText(request) == request.body.content[Len(request.body.content)].text

\* C4: every prompt buildPrompt returns carries a no-text rule, and the text
\* generateImage sends with user reference images attached carries the ABSOLUTE
\* TEXT PROHIBITION block as well.
C4_NoTextPolicy ==
    /\ probe.op = "buildPrompt" => Tags(probe.prompt) \cap NoTextRules # {}
    /\ probe.op = "generateImage" =>
            /\ Tags(RequestText(probe.request)) \cap NoTextRules # {}
            /\ HasRefs(probe.genState) =>
                    "ABSOLUTE TEXT PROHIBITION:" \in Tags(RequestText(probe.request))

C4_Witness ==
    /\ probe.op = "generateImage"
    /\ HasRefs(probe.genState)
    /\ probe.genState.category = "subtopic_cover"
    /\ IsAlgebra(probe.genState.promptText)

SelectableStyles(category) ==
    { CONFIG.categories[category].styles[k] : k \in 1..Len(CONFIG.categories[category].styles) }

\* C5 as stated: with user reference images attached, the simplified prompt carries
\* the name and the whole prompt template of the selected style, for every
\* category and every style its style select offers.
C5_StyleApplied ==
    (probe.op = "buildPrompt" /\ HasRefs(probe.genState)) =>
        \A st \in SelectableStyles(probe.genState.category) :
            st.id = probe.genState.style =>
                /\ \E k \in 1..Len(probe.prompt) :
                        /\ "name" \in DOMAIN probe.prompt[k]
                        /\ probe.prompt[k].name = st.name
                /\ ContainsRun(probe.prompt, st.prompt_template)


C5_FailingInput ==
    /\ probe.op = "buildPrompt"
    /\ HasRefs(probe.genState)
    /\ probe.genState.style = "original"
    /\ probe.genState.category = "subtopic_cover"

SystemFiles == UNION { { categoryMap(c)[k] : k \in 1..Len(categoryMap(c)) } : c \in Categories }

InstructionBlock == "ABSOLUTE CRITICAL INSTRUCTION - HIGHEST PRIORITY"

\* C6: the content list of a generateImage request is the system reference images,
\* then the user reference images, then one text element; the text opens with the
\* reference-matching instruction block exactly when a user reference image is
\* attached, and the counts under IMAGE ORDER are the numbers of leading system
\* images and trailing user images in the content list.
C6_ContentOrder ==
    probe.op = "generateImage" =>
        LET content == probe.request.body.content
            n       == Len(content)
            text    == content[n].text
            sys     == { k \in 1..(n - 1) : content[k].url \in SystemFiles }
            usr     == { k \in 1..(n - 1) : content[k].url \in UserImages }
        IN  /\ n >= 1
            /\ content[n].type = "text"
            /\ \A k \in 1..(n - 1) : content[k].type = "image_url"
            /\ sys = 1..Cardinality(sys)
            /\ usr = (Cardinality(sys) + 1)..(n - 1)
            /\ [k \in 1..Cardinality(sys) |-> content[k].url] = probe.params.systemReferenceImages
            /\ [k \in 1..Cardinality(usr) |-> content[Cardinality(sys) + k].url]
                    = probe.genState.referenceImages
            /\ (Len(text) > 0 /\ text[1].t = InstructionBlock) <=> usr # {}
            /\ InstructionBlock \in Tags(text) <=> usr # {}
            /\ \A k \in 1..Len(text) :
                    text[k].t = "IMAGE ORDER:" =>
                        /\ text[k].first = Cardinality(sys)
                        /\ text[k].last = Cardinality(usr)
                        /\ k = 2
            /\ (sys # {} /\ usr # {}) => "IMAGE ORDER:" \in Tags(text)

C6_Witness ==
    /\ probe.op = "generateImage"
    /\ Len(probe.params.systemReferenceImages) >= 2
    /\ Len(probe.genState.referenceImages) >= 1
    /\ "IMAGE ORDER:" \in Tags(RequestText(probe.request))

\* C7: a request on the network that carries the API key is a POST to
\* CONFIG.api.baseUrl; the requests fetching system reference images carry no
\* Authorization header, whatever key is set.
C7_KeyOnlyToOpenRouter ==
    \A r \in net :
        /\ (api.apiKey # "" /\ r.Authorization = api.apiKey) =>
                (r.method = "POST" /\ r.url = CONFIG.api.baseUrl)
        /\ r.url # CONFIG.api.baseUrl => r.Authorization = NULL

C7_Witness ==
    /\ api.apiKey \in Keys
    /\ probe.op = "fetchReferenceImages"
    /\ \E r \in net : r.method = "GET" /\ r.Authorization = NULL

MAX_ITEMS == 20

Range(q) == { q[k] : k \in 1..Len(q) }

Ids(history) == [k \in 1..Len(history) |-> history[k].id]

DistinctIds(history) ==
    \A j, k \in 1..Len(history) : history[j].id = history[k].id => j = k

\* state.history.find(h => h.id == id)
HasItem(history, id) == \E k \in 1..Len(history) : history[k].id = id

IndexOfItem(history, id) == CHOOSE k \in 1..Len(history) :
    /\ history[k].id = id
    /\ \A j \in 1..(k - 1) : history[j].id # id

\* A readwrite transaction of saveHistory.  Its array holds references to the
\* objects of state.history (live, named by id), which store.add clones only when
\* the transaction runs; items holds the values once the objects are no longer
\* those of state.history, and for the parsed list of the migration.
SaveTx(history) ==
    LET kept == SubSeq(history, 1, IF Len(history) < MAX_ITEMS THEN Len(history) ELSE MAX_ITEMS)
    IN  [kind |-> "save", by |-> "app", live |-> TRUE, ids |-> Ids(kept), items |-> << >>]

MigrateTx(history) ==
    [kind |-> "save", by |-> "migrate", live |-> FALSE, ids |-> << >>, items |-> history]

LoadTx == [kind |-> "load", by |-> "init", live |-> FALSE, ids |-> << >>, items |-> << >>]

Resolve(tx, history) ==
    IF tx.live
    THEN [k \in 1..Len(tx.ids) |-> history[IndexOfItem(history, tx.ids[k])]]
    ELSE tx.items

Freeze(tx, history) ==
    IF tx.live
    THEN [tx EXCEPT !.live = FALSE, !.ids = << >>, !.items = Resolve(tx, history)]
    ELSE tx

FreezeAll(txs, history) == [k \in 1..Len(txs) |-> Freeze(txs[k], history)]

\* HistoryStorage.saveHistory: await this.init(), then the transaction.  Before the
\* database is open the call waits for an open request of its own.
StorageSaveHistory(st, tx) ==
    IF st.db THEN [st EXCEPT !.queue = Append(@, tx)]
             ELSE [st EXCEPT !.waiting = Append(@, tx)]

\* saveHistory of app.js
saveHistory(st, history) == StorageSaveHistory(st, SaveTx(history))

\* store.clear() and store.add(item) for every item: an add of a key already in
\* the store fails and aborts the transaction, which restores the store.
ClearAndAdd(store, items) ==
    IF DistinctIds(items) THEN Range(items) ELSE store

\* results.sort((a, b) => new Date(b.timestamp) - new Date(a.timestamp))
RECURSIVE SortByTimestamp(_)
SortByTimestamp(records) ==
    IF records = {} THEN << >>
    ELSE LET first == CHOOSE r \in records : \A o \in records : o.timestamp <= r.timestamp
         IN  << first >> \o SortByTimestamp(records \ {first})

\* ------------------------------------------------------------------------
\* app.js : initHistory and the transactions it and saveHistory create
\* ------------------------------------------------------------------------

\* indexedDB.open succeeds for initHistory: migrateFromLocalStorage saves the
\* list under imageGenHistory if there is one, else loadHistory asks for the store.
OpenDb ==
    /\ initPc = "opening"
    /\ IF Len(localStorage.imageGenHistory) > 0
       THEN /\ storage' = [storage EXCEPT !.db = TRUE,
                               !.queue = Append(@, MigrateTx(localStorage.imageGenHistory))]
            /\ initPc' = "migrating"
       ELSE /\ storage' = [storage EXCEPT !.db = TRUE, !.queue = Append(@, LoadTx)]
            /\ initPc' = "loading"
    /\ UNCHANGED << net, state, dom, api, localStorage, gen, clock, returned, changes, probe, refining, persisted >>

\* the open request of a saveHistory that was called before the database was open
WaitingOpened ==
    /\ storage.db
    /\ Len(storage.waiting) > 0
    /\ storage' = [storage EXCEPT !.waiting = Tail(@), !.queue = Append(@, Head(storage.waiting))]
    /\ UNCHANGED << net, state, dom, api, localStorage, initPc, gen, clock, returned, changes, probe, refining, persisted >>

\* the readwrite transaction of a saveHistory runs
RunSave ==
    /\ Len(storage.queue) > 0
    /\ Head(storage.queue).kind = "save"
    /\ LET tx    == Head(storage.queue)
           store == ClearAndAdd(storage.store, Resolve(tx, state.history))
       IN  IF tx.by = "migrate"
           THEN \* migrateFromLocalStorage goes on, then loadHistory
                /\ storage' = [storage EXCEPT !.store = store,
                                              !.queue = Append(Tail(@), LoadTx)]
                /\ localStorage' = IF DistinctIds(tx.items)
                                   THEN [localStorage EXCEPT !.imageGenHistory = << >>]
                                   ELSE localStorage
                /\ initPc' = "loading"
           ELSE /\ storage' = [storage EXCEPT !.store = store, !.queue = Tail(@)]
                /\ UNCHANGED << localStorage, initPc >>
    /\ UNCHANGED << net, state, dom, api, gen, clock, returned, changes, probe, refining, persisted >>

\* the readonly transaction of loadHistory runs: state.history = history
RunLoad ==
    /\ Len(storage.queue) > 0
    /\ Head(storage.queue).kind = "load"
    /\ state' = [state EXCEPT !.history = SortByTimestamp(storage.store)]
    /\ storage' = [storage EXCEPT !.queue = FreezeAll(Tail(@), state.history),
                                  !.waiting = FreezeAll(@, state.history)]
    /\ initPc' = "done"
    /\ UNCHANGED << net, dom, api, localStorage, gen, clock, returned, changes, probe, refining, persisted >>


\* ------------------------------------------------------------------------
\* app.js : the settings the user changes
\* ------------------------------------------------------------------------

SessionCategories == {"tutero_ai", "context_introduction"}
SessionStyles == {"original", "paper_craft"}
TypedPrompts == {"A soccer match"}

StyleIds(category) ==
    { CONFIG.categories[category].styles[k].id : k \in 1..Len(CONFIG.categories[category].styles) }

\* showNextSections: keep state.style if the category has it, else its first style
showNextSections(st) ==
    IF st.category = NULL \/ st.style \in StyleIds(st.category)
    THEN st
    ELSE [st EXCEPT !.style = CONFIG.categories[st.category].styles[1].id]

Setting(newState, newDom) ==
    /\ changes < MaxChanges
    /\ changes' = changes + 1
    /\ state' = newState
    /\ dom' = newDom
    /\ UNCHANGED << net, api, storage, localStorage, initPc, gen, clock, returned, probe, refining, persisted >>

SelectCategory ==
    \E c \in SessionCategories :
        /\ c # state.category
        /\ Setting(showNextSections([state EXCEPT !.category = c]), dom)

SelectStyle ==
    \E style \in SessionStyles :
        /\ state.category # NULL
        /\ style \in StyleIds(state.category)
        /\ style # state.style
        /\ Setting([state EXCEPT !.style = style], dom)

SelectOrientation ==
    \E o \in Orientations :
        /\ o # state.orientation
        /\ Setting([state EXCEPT !.orientation = o], dom)

SelectCount ==
    \E n \in 1..MaxCount :
        /\ n # state.count
        /\ Setting([state EXCEPT !.count = n], dom)

\* updateModel: both model selects show the model
SelectModel ==
    \E m \in Models :
        /\ m # state.model
        /\ Setting([state EXCEPT !.model = m], [dom EXCEPT !.editModel = m])

TypePrompt ==
    \E text \in TypedPrompts \cup {""} :
        /\ text # dom.prompt
        /\ Setting(state, [dom EXCEPT !.prompt = text])

AttachReferenceImage ==
    \E img \in UserImages :
        /\ Len(state.referenceImages) < MaxRefs
        /\ Setting([state EXCEPT !.referenceImages = Append(@, img)], dom)

RemoveReferenceImage ==
    \E k \in 1..Len(state.referenceImages) :
        Setting([state EXCEPT !.referenceImages =
                    SubSeq(@, 1, k - 1) \o SubSeq(@, k + 1, Len(@))], dom)

TypeEditPrompt ==
    \E text \in TypedPrompts \cup {""} :
        /\ text # dom.editPrompt
        /\ Setting(state, [dom EXCEPT !.editPrompt = text])

SelectEditCount ==
    \E n \in 1..MaxCount :
        /\ n # dom.editCount
        /\ Setting(state, [dom EXCEPT !.editCount = n])

UploadEditImage ==
    \E img \in UserImages :
        /\ img # state.editStudioImage
        /\ Setting([state EXCEPT !.editStudioImage = img], dom)

RemoveEditImage ==
    /\ state.editStudioImage # NULL
    /\ Setting([state EXCEPT !.editStudioImage = NULL], dom)

\* updateApiKey of setupApiKeys
UpdateApiKey ==
    \E key \in Keys \cup {""} :
        /\ key # state.apiKey
        /\ changes < MaxChanges
        /\ changes' = changes + 1
        /\ state' = [state EXCEPT !.apiKey = key]
        /\ api' = [apiKey |-> key]
        /\ localStorage' = [localStorage EXCEPT !.openrouter_key = key]
        /\ UNCHANGED << net, dom, storage, initPc, gen, clock, returned, probe, refining, persisted >>

switchStudio(st, studio) == [st EXCEPT !.activeStudio = studio]

SwitchStudio ==
    \E studio \in {"generate", "edit"} :
        /\ studio # state.activeStudio
        /\ state' = switchStudio(state, studio)
        /\ UNCHANGED << net, dom, api, storage, localStorage, initPc, gen, clock, returned,
                        changes, probe, refining, persisted >>

HasImage(images, index) == \E k \in 1..Len(images) : images[k].index = index

FindImage(images, index) ==
    images[CHOOSE k \in 1..Len(images) :
                /\ images[k].index = index
                /\ \A j \in 1..(k - 1) : images[j].index # index]

\* window.openEditModal(index): the edit button of a shown result
OpenEditModal ==
    \E index \in { state.generatedImages[k].index : k \in 1..Len(state.generatedImages) } :
        /\ state' = switchStudio([state EXCEPT !.editStudioImage =
                                    FindImage(state.generatedImages, index).url], "edit")
        /\ dom' = [dom EXCEPT !.editPrompt = ""]
        /\ UNCHANGED << net, api, storage, localStorage, initPc, gen, clock, returned, changes, probe, refining, persisted >>

OrDefault(value, default) == IF value = NULL THEN default ELSE value

\* loadHistoryItem(item) for the item of the sidebar with this id
loadHistoryItem(st, item) ==
    showNextSections(
        [st EXCEPT !.currentHistoryId = item.id,
                   !.category = item.category,
                   !.count = item.count,
                   !.style = OrDefault(item.style, "original"),
                   !.orientation = OrDefault(item.orientation, "landscape"),
                   !.model = OrDefault(item.model, "google/gemini-2.5-flash-image"),
                   !.referenceImages = item.referenceImages,
                   !.generatedImages = item.images])

LoadHistoryItem ==
    \E k \in 1..Len(state.history) :
        LET item == state.history[IndexOfItem(state.history, state.history[k].id)]
        IN  /\ state' = loadHistoryItem(state, item)
            /\ dom' = [dom EXCEPT !.prompt = item.prompt, !.editModel = state'.model]
            /\ UNCHANGED << net, api, storage, localStorage, initPc, gen, clock, returned,
                            changes, probe, refining, persisted >>


\* ------------------------------------------------------------------------
\* app.js : handleGenerate, one batch at a time
\* ------------------------------------------------------------------------

\* the genState handleGenerate captures
CaptureGenState(st, d, isEdit) ==
    [promptText |-> IF isEdit THEN d.editPrompt ELSE d.prompt,
     category |-> OrDefault(st.category, "tutero_ai"),
     count |-> IF isEdit THEN d.editCount ELSE st.count,
     orientation |-> st.orientation,
     style |-> st.style,
     model |-> IF isEdit THEN d.editModel ELSE st.model,
     referenceImages |-> IF isEdit THEN << st.editStudioImage >> ELSE st.referenceImages]

NewId_NoClock(now, suffix) == << 0, suffix >>

\* id: Date.now() + Math.random().toString(36).substr(2, 9)
NewId(now, suffix) == << now, suffix >>

\* addToHistory: the item put in front of state.history
NewHistoryItem(id, now, genState) ==
    HistoryItem(id, now, genState.promptText, genState.category, genState.count,
                genState.style, genState.orientation, genState.model,
                genState.referenceImages)

NextRequest_Live(g, st, a) ==
    generateImage(
        ImageParams([g.genState EXCEPT !.category = OrDefault(st.category, "tutero_ai"),
                                       !.style = st.style,
                                       !.orientation = st.orientation,
                                       !.referenceImages = IF g.isEdit THEN @ ELSE st.referenceImages],
                    g.systemReferences, g.i),
        a.apiKey)

\* The request the loop of handleGenerate sends for image g.i.  state is in scope
\* of the loop; everything it uses comes from the captured genState.
NextRequest(g, st, a) ==
    generateImage(ImageParams(g.genState, g.systemReferences, g.i), a.apiKey)

DisableButtons_GenerateOnly(d) == [d EXCEPT !.generateBtnDisabled = TRUE]

\* generateBtn.disabled = true; editGenerateBtn.disabled = true
DisableButtons(d) == [d EXCEPT !.generateBtnDisabled = TRUE, !.editGenerateBtnDisabled = TRUE]

\* handleGenerate from its start to the await of fetchReferenceImages
StartBatch(st, isEdit) ==
    LET genState == CaptureGenState(st, dom, isEdit)
        cleared  == IF isEdit THEN st
                    ELSE [st EXCEPT !.generatedImages = << >>, !.currentHistoryId = NoId]
    IN  /\ genState.promptText # ""
        /\ st.apiKey # ""
        /\ isEdit \/ st.category # NULL
        /\ clock < SessionStart + MaxBatches
        /\ dom' = DisableButtons(dom)
        /\ \E suffix \in RandomSuffixes :
            LET isNew     == cleared.currentHistoryId = NoId
                historyId == IF isNew THEN NewId(clock, suffix) ELSE cleared.currentHistoryId
                history   == IF isNew
                             THEN << NewHistoryItem(historyId, clock, genState) >> \o cleared.history
                             ELSE cleared.history
            IN  /\ isNew \/ suffix = CHOOSE x \in RandomSuffixes : TRUE
                /\ state' = [cleared EXCEPT !.history = history,
                                            !.currentHistoryId = historyId,
                                            !.activeGenerationId = historyId]
                /\ storage' = IF isNew THEN saveHistory(storage, history) ELSE storage
                /\ gen' = [pc |-> "fetchRefs", isEdit |-> isEdit, genState |-> genState,
                           historyId |-> historyId,
                           startIndex |-> Len(cleared.generatedImages), i |-> 0,
                           systemReferences |-> << >>, request |-> NULL]
        /\ net' = fetchReferenceImagesRequests(genState.category, api.apiKey)
        /\ UNCHANGED << api, localStorage, initPc, clock, returned, changes, probe, refining, persisted >>

\* click on the generate button, shown in the generate studio
HandleGenerate ==
    /\ ~dom.generateBtnDisabled
    /\ state.activeStudio = "generate"
    /\ StartBatch(state, FALSE)

\* click on the edit button of the edit studio: handleEditStudioGenerate, which
\* calls handleGenerate
HandleEditStudioGenerate ==
    /\ ~dom.editGenerateBtnDisabled
    /\ state.activeStudio = "edit"
    /\ dom.editPrompt # ""
    /\ state.editStudioImage # NULL
    /\ StartBatch([state EXCEPT !.category = OrDefault(@, "tutero_ai"),
                                !.referenceImages = << state.editStudioImage >>], TRUE)

\* the reference images of a category are all deployed, or none is
RefOutcomes(category) == { {}, 1..Len(categoryMap(category)) }

\* fetchReferenceImages returns; the request for the first image is sent
FetchRefsDone ==
    /\ gen.pc = "fetchRefs"
    /\ \E ok \in RefOutcomes(gen.genState.category) :
        LET g == [gen EXCEPT !.pc = "request",
                             !.systemReferences = fetchReferenceImages(gen.genState.category, ok)]
            request == NextRequest(g, state, api)
        IN  /\ gen' = [g EXCEPT !.request = request]
            /\ net' = { Wire(request) }
    /\ clock' = clock + 1
    /\ UNCHANGED << state, dom, api, storage, localStorage, initPc, returned, changes, probe, refining, persisted >>

\* updateResultItem(index, imageUrl, historyId, grid)
updateResultItem(st, index, imageUrl, historyId) ==
    LET found   == HasItem(st.history, historyId)
        at      == IndexOfItem(st.history, historyId)
        exists  == \E k \in 1..Len(st.history[at].images) :
                        st.history[at].images[k] = Image(index, imageUrl)
        history == IF found /\ ~exists
                   THEN [st.history EXCEPT ![at].images = Append(@, Image(index, imageUrl))]
                   ELSE st.history
        shown   == IF st.currentHistoryId = historyId /\ ~HasImage(st.generatedImages, index)
                   THEN Append(st.generatedImages, Image(index, imageUrl))
                   ELSE st.generatedImages
    IN  [st EXCEPT !.history = history, !.generatedImages = shown]

\* whether updateResultItem calls saveHistory
SavesOnUpdate(st, index, imageUrl, historyId) ==
    /\ HasItem(st.history, historyId)
    /\ \A k \in 1..Len(st.history[IndexOfItem(st.history, historyId)].images) :
            st.history[IndexOfItem(st.history, historyId)].images[k] # Image(index, imageUrl)

\* the finally block of handleGenerate
FinishBatch(st, d) ==
    /\ dom' = [d EXCEPT !.generateBtnDisabled = FALSE, !.editGenerateBtnDisabled = FALSE]
    /\ state' = [st EXCEPT !.activeGenerationId = NoId]
    /\ gen' = GenIdle
    /\ net' = {}

\* generateImage returns an image url
ResponseOk ==
    /\ gen.pc = "request"
    /\ \E imageUrl \in SessionUrls :
        LET index   == gen.startIndex + gen.i + 1
            updated == updateResultItem(state, index, imageUrl, gen.historyId)
        IN  /\ returned' = returned \cup
                    { [historyId |-> gen.historyId, index |-> index, url |-> imageUrl] }
            /\ storage' = IF SavesOnUpdate(state, index, imageUrl, gen.historyId)
                          THEN saveHistory(storage, updated.history)
                          ELSE storage
            /\ IF gen.i + 1 < gen.genState.count
               THEN LET g == [gen EXCEPT !.i = gen.i + 1]
                        request == NextRequest(g, updated, api)
                    IN  /\ gen' = [g EXCEPT !.request = request]
                        /\ net' = { Wire(request) }
                        /\ state' = updated
                        /\ dom' = dom
               ELSE /\ FinishBatch(updated,
                            IF gen.isEdit THEN dom
                            ELSE [dom EXCEPT !.resultsSummary = gen.genState.count])
    /\ UNCHANGED << api, localStorage, initPc, clock, changes, probe, refining, persisted >>

ResponseFail_SkipsImage ==
    /\ gen.pc = "request"
    /\ IF gen.i + 1 < gen.genState.count
       THEN LET g == [gen EXCEPT !.i = gen.i + 1]
                request == NextRequest(g, state, api)
            IN  /\ gen' = [g EXCEPT !.request = request]
                /\ net' = { Wire(request) }
                /\ UNCHANGED << state, dom >>
       ELSE FinishBatch(state, dom)
    /\ UNCHANGED << api, storage, localStorage, initPc, clock, returned, changes, probe, refining, persisted >>

\* generateImage throws: the response is an error or holds no image
ResponseFail ==
    /\ gen.pc = "request"
    /\ FinishBatch(state, dom)
    /\ UNCHANGED << api, storage, localStorage, initPc, clock, returned, changes, probe, refining, persisted >>

\* ------------------------------------------------------------------------
\* Specification Spec: a session of the application
\* ------------------------------------------------------------------------

\* The sessions checked: every persisted store and legacy list with the form
\* still blank when indexedDB.open returns, and a first visit (nothing stored)
\* with the form already filled.
Startups ==
    { [store |-> store, legacy |-> legacy, form |-> BlankForm] :
            store \in PersistedStores, legacy \in LegacyLists }
    \cup { [store |-> {}, legacy |-> << >>, form |-> FilledForm] }

Init ==
    /\ \E key \in Keys \cup {""}, s \in Startups : AppInit(key, s.store, s.legacy, s.form)
    /\ probe = [op |-> "none"]

Next ==
    \/ OpenDb
    \/ WaitingOpened
    \/ RunSave
    \/ RunLoad
    \/ SelectCategory
    \/ SelectStyle
    \/ SelectOrientation
    \/ SelectCount
    \/ SelectModel
    \/ TypePrompt
    \/ AttachReferenceImage
    \/ RemoveReferenceImage
    \/ TypeEditPrompt
    \/ SelectEditCount
    \/ UploadEditImage
    \/ RemoveEditImage
    \/ UpdateApiKey
    \/ SwitchStudio
    \/ OpenEditModal
    \/ LoadHistoryItem
    \/ HandleGenerate
    \/ HandleEditStudioGenerate
    \/ FetchRefsDone
    \/ ResponseOk
    \/ ResponseFail

Spec == Init /\ [][Next]_vars


\* ------------------------------------------------------------------------
\* Properties of a session (under Spec)
\* ------------------------------------------------------------------------

\* the images a record had when the session started
StoredImages(id) ==
    Range(IF id = Persisted1.id THEN Persisted1.images
          ELSE IF id = Legacy1.id THEN Legacy1.images
          ELSE << >>)

\* C1 as stated: every image the API has returned to a batch is, with its index,
\* among the images of the record bound to the batch, and every image of a
\* record was returned to a batch bound to that record.
C1_ImagesReachTheirRecord ==
    /\ \A r \in returned :
            /\ HasItem(state.history, r.historyId)
            /\ Image(r.index, r.url) \in
                    Range(state.history[IndexOfItem(state.history, r.historyId)].images)
    /\ \A k \in 1..Len(state.history) :
            \A img \in Range(state.history[k].images) \ StoredImages(state.history[k].id) :
                [historyId |-> state.history[k].id, index |-> img.index, url |-> img.url]
                    \in returned

\* the first visit with the form filled before indexedDB.open returns: the batch
\* has its image while the record it is bound to is gone from state.history
C1_FailingInput ==
    /\ initPc = "done"
    /\ \E r \in returned : ~HasItem(state.history, r.historyId)

\* C2: the records of state.history have pairwise distinct ids, and the persisted
\* store holds at most one record per id.
C2_DistinctIds ==
    /\ DistinctIds(state.history)
    /\ \A r1, r2 \in storage.store : r1.id = r2.id => r1 = r2

C2_Witness ==
    /\ Len(state.history) >= 3
    /\ \E k \in 1..Len(state.history) : state.history[k].id = Persisted1.id
    /\ Cardinality(storage.store) >= 3
    /\ initPc = "done"

\* C9: the genState of a batch holds the category, style, orientation, count,
\* model and reference images selected at the click, no step changes it while
\* the batch runs, and every request of the batch is the one built from it.
C9_BatchUsesCapturedState ==
    [][ /\ (gen.pc = "idle" /\ gen'.pc # "idle") =>
                LET g == gen'.genState
                IN  /\ g.category = OrDefault(state.category, "tutero_ai")
                    /\ g.style = state.style
                    /\ g.orientation = state.orientation
                    /\ g.count = (IF gen'.isEdit THEN dom.editCount ELSE state.count)
                    /\ g.model = (IF gen'.isEdit THEN dom.editModel ELSE state.model)
                    /\ g.referenceImages = (IF gen'.isEdit THEN << state.editStudioImage >>
                                                           ELSE state.referenceImages)
        /\ (gen.pc # "idle" /\ gen'.pc # "idle") => gen'.genState = gen.genState
        /\ gen'.pc = "request" =>
                LET g      == gen'.genState
                    params == ImageParams(g, gen'.systemReferences, gen'.i)
                    body   == gen'.request.body
                IN  /\ gen'.i < g.count
                    /\ body = generateImage(params, "").body
                    /\ body.model = g.model
                    /\ RequestText(gen'.request) =
                            ReferenceInstructions(gen'.systemReferences, g.referenceImages)
                            \o FinalPrompt(g, gen'.i)
                    /\ net' = { Wire(gen'.request) }
      ]_vars

C9_Witness ==
    /\ gen.pc = "request"
    /\ gen.i = 1
    /\ ~gen.isEdit
    /\ state.category # gen.genState.category
    /\ changes = 1


\* ------------------------------------------------------------------------
\* Specification SpecStartup: initHistory against the first generations, the
\* form being filled in before indexedDB.open returns
\* ------------------------------------------------------------------------

StartupInit ==
    /\ \E key \in Keys, store \in PersistedStores, legacy \in LegacyLists :
            AppInit(key, store, legacy, FilledForm)
    /\ probe = [op |-> "none"]

StartupNext ==
    \/ OpenDb
    \/ WaitingOpened
    \/ RunSave
    \/ RunLoad
    \/ LoadHistoryItem
    \/ HandleGenerate
    \/ FetchRefsDone
    \/ ResponseOk
    \/ ResponseFail

SpecStartup == StartupInit /\ [][StartupNext]_vars

\* the saves and the load of the session have all run
StorageSettled == Len(storage.queue) = 0 /\ Len(storage.waiting) = 0

\* initHistory has finished, and so has the first batch, with every save it made
StartupAndFirstBatchDone ==
    /\ initPc = "done"
    /\ gen.pc = "idle"
    /\ clock = SessionStart + 1
    /\ StorageSettled

\* C11 as stated: once initHistory and the first generation have both finished,
\* every record persisted by an earlier session is still in state.history and in
\* the store, and so is the record of the batch with every image returned for it.
C11_StartupKeepsHistory ==
    StartupAndFirstBatchDone =>
        /\ \A p \in persisted :
                /\ HasItem(state.history, p.id)
                /\ \E s \in storage.store : s.id = p.id
        /\ \A r \in returned :
                /\ HasItem(state.history, r.historyId)
                /\ Image(r.index, r.url) \in
                        Range(state.history[IndexOfItem(state.history, r.historyId)].images)
                /\ \E s \in storage.store :
                        s.id = r.historyId /\ Image(r.index, r.url) \in Range(s.images)

\* a later visit with the form filled before the load has run: after the first
\* batch the record of the earlier session is gone from the store and the new
\* record is gone from state.history
C11_FailingInput ==
    /\ StartupAndFirstBatchDone
    /\ persisted = {Persisted1}
    /\ \A s \in storage.store : s.id # Persisted1.id
    /\ \E r \in returned : ~HasItem(state.history, r.historyId)


\* the view shows exactly the images of the record being viewed, and nothing
\* when no record is being viewed
ViewMirrorsRecord ==
    /\ HasItem(state.history, state.currentHistoryId) =>
            LET item == state.history[IndexOfItem(state.history, state.currentHistoryId)]
            IN  /\ Range(state.generatedImages) = Range(item.images)
                /\ Len(state.generatedImages) = Len(item.images)
    /\ state.currentHistoryId = NoId => state.generatedImages = << >>

\* a response that arrives for a record other than the one being viewed
CompletionElsewhere ==
    /\ gen.pc = "request"
    /\ gen.historyId # state.currentHistoryId
    /\ returned' # returned

\* C12 as stated: the view always mirrors the current record, and a completion
\* for a record that is not being viewed changes neither generatedImages nor
\* currentHistoryId.
C12_ViewMirrorsRecord ==
    /\ []ViewMirrorsRecord
    /\ [][CompletionElsewhere =>
            /\ state'.generatedImages = state.generatedImages
            /\ state'.currentHistoryId = state.currentHistoryId]_vars

\* the legacy list is migrated while the first batch runs: the image arrives
\* after the save of the new record and before the load, which then puts the
\* stored copy of the record, without the image, into state.history
C12_FailingInput ==
    /\ initPc = "done"
    /\ HasItem(state.history, state.currentHistoryId)
    /\ state.history[IndexOfItem(state.history, state.currentHistoryId)].images = << >>
    /\ Len(state.generatedImages) = 1
    /\ \E r \in returned : r.historyId = state.currentHistoryId


\* C13: at most one batch is in flight.  While a batch runs both buttons are
\* disabled; a button is enabled again only by the step that ends the batch; a
\* batch starts only when none runs, by a click on one of the two buttons, which
\* is then enabled and shown; and a running batch is never replaced by another.
C13_OneBatchInFlight ==
    /\ [](gen.pc # "idle" => dom.generateBtnDisabled /\ dom.editGenerateBtnDisabled)
    /\ [][ /\ (\/ dom.generateBtnDisabled /\ ~dom'.generateBtnDisabled
               \/ dom.editGenerateBtnDisabled /\ ~dom'.editGenerateBtnDisabled)
                    => gen.pc # "idle" /\ gen'.pc = "idle"
           /\ (gen.pc = "idle" /\ gen'.pc # "idle") =>
                    /\ gen'.pc = "fetchRefs"
                    /\ IF gen'.isEdit
                       THEN ~dom.editGenerateBtnDisabled /\ state.activeStudio = "edit"
                       ELSE ~dom.generateBtnDisabled /\ state.activeStudio = "generate"
           /\ (gen.pc # "idle" /\ gen'.pc # "idle") =>
                    /\ gen'.historyId = gen.historyId
                    /\ gen'.genState = gen.genState
                    /\ gen'.isEdit = gen.isEdit
                    /\ gen'.i >= gen.i
      ]_vars

\* the second batch of a session is waiting for a response while the user has
\* loaded another record and is in the other studio
C13_Witness ==
    /\ gen.pc = "request"
    /\ clock = SessionStart + 2
    /\ state.currentHistoryId # gen.historyId
    /\ state.activeStudio = (IF gen.isEdit THEN "generate" ELSE "edit")
    /\ dom.generateBtnDisabled
    /\ dom.editGenerateBtnDisabled


\* the batch has the response for its image number j (counted from 1)
Answered(g, log, j) ==
    \E r \in log : r.historyId = g.historyId /\ r.index = g.startIndex + j

ApiPost(a) == [url |-> CONFIG.api.baseUrl, method |-> "POST", Authorization |-> a.apiKey]

\* saveHistory: localStorage.setItem('imageGenHistory', JSON.stringify(...))
LsSaveHistory(ls, history) ==
    [ls EXCEPT !.imageGenHistory =
        SubSeq(history, 1, IF Len(history) < MAX_ITEMS THEN Len(history) ELSE MAX_ITEMS)]

\* addToHistory(prompt, category, count)
LsNewHistoryItem(now, genState) ==
    [id |-> << now >>, timestamp |-> now, prompt |-> genState.promptText,
     category |-> genState.category, count |-> genState.count, style |-> NULL,
     orientation |-> NULL, model |-> NULL, referenceImages |-> << >>, images |-> << >>]

\* handleGenerate up to the await of fetchReferenceImages
LsHandleGenerate ==
    /\ ~dom.generateBtnDisabled
    /\ state.category # NULL
    /\ dom.prompt # ""
    /\ state.apiKey # ""
    /\ clock < SessionStart + MaxRefineBatches
    /\ LET genState  == CaptureGenState(state, dom, FALSE)
           item      == LsNewHistoryItem(clock, genState)
           history   == << item >> \o state.history
       IN  /\ state' = [state EXCEPT !.generatedImages = << >>, !.history = history,
                                     !.currentHistoryId = item.id]
           /\ localStorage' = LsSaveHistory(localStorage, history)
           /\ gen' = [pc |-> "fetchRefs", isEdit |-> FALSE, genState |-> genState,
                      historyId |-> item.id, startIndex |-> 0, i |-> 0,
                      systemReferences |-> << >>, request |-> NULL]
           /\ net' = net \cup fetchReferenceImagesRequests(genState.category, api.apiKey)
    /\ dom' = [dom EXCEPT !.generateBtnDisabled = TRUE]
    /\ UNCHANGED << api, storage, initPc, clock, returned, changes, probe, refining, persisted >>

LsFetchRefsDone ==
    /\ gen.pc = "fetchRefs"
    /\ \E ok \in RefOutcomes(gen.genState.category) :
        gen' = [gen EXCEPT !.pc = "request",
                           !.systemReferences = fetchReferenceImages(gen.genState.category, ok)]
    /\ net' = { r \in net : r.method = "POST" } \cup { ApiPost(api) }
    /\ clock' = clock + 1
    /\ UNCHANGED << state, dom, api, storage, localStorage, initPc, returned, changes, probe,
                    refining, persisted >>

\* the requests of the refinements still running
RefineRequests(calls) == IF calls = {} THEN {} ELSE { ApiPost(api) }

\* generateImage returns to the batch: updateResultItem(i + 1, imageUrl, historyId)
LsResponseOk ==
    /\ gen.pc = "request"
    /\ \E imageUrl \in Urls :
        LET index   == gen.i + 1
            updated == updateResultItem(state, index, imageUrl, gen.historyId)
            last    == gen.i + 1 >= gen.genState.count
        IN  /\ state' = updated
            /\ localStorage' = IF SavesOnUpdate(state, index, imageUrl, gen.historyId)
                               THEN LsSaveHistory(localStorage, updated.history)
                               ELSE localStorage
            /\ gen' = IF last THEN GenIdle ELSE [gen EXCEPT !.i = gen.i + 1]
            /\ dom' = IF last
                      THEN [dom EXCEPT !.generateBtnDisabled = FALSE,
                                       !.resultsSummary = gen.genState.count]
                      ELSE dom
            /\ net' = IF last THEN RefineRequests(refining.calls) ELSE net
    /\ UNCHANGED << api, storage, initPc, clock, returned, changes, probe, refining, persisted >>

LsResponseFail ==
    /\ gen.pc = "request"
    /\ gen' = GenIdle
    /\ dom' = [dom EXCEPT !.generateBtnDisabled = FALSE]
    /\ net' = RefineRequests(refining.calls)
    /\ UNCHANGED << state, api, storage, localStorage, initPc, clock, returned, changes, probe,
                    refining, persisted >>

\* loadHistoryItem(item) of this build
LsLoadHistoryItem ==
    \E k \in 1..Len(state.history) :
        LET item == state.history[IndexOfItem(state.history, state.history[k].id)]
        IN  /\ state' = [state EXCEPT !.currentHistoryId = item.id,
                                      !.category = item.category,
                                      !.count = item.count,
                                      !.generatedImages = item.images]
            /\ dom' = [dom EXCEPT !.prompt = item.prompt]
            /\ UNCHANGED << api, storage, localStorage, initPc, gen, net, clock, returned,
                            changes, probe, refining, persisted >>

\* window.openEditModal(index): the edit button of a shown result
LsOpenEditModal ==
    \E index \in { state.generatedImages[k].index : k \in 1..Len(state.generatedImages) } :
        /\ state' = [state EXCEPT !.editingIndex = index]
        /\ dom' = [dom EXCEPT !.refineInput = "", !.editModalHidden = FALSE]
        /\ UNCHANGED << api, storage, localStorage, initPc, gen, net, clock, returned,
                        changes, probe, refining, persisted >>

TypeRefineInstructions ==
    \E text \in {"Make the ball red"} :
        /\ ~dom.editModalHidden
        /\ dom.refineInput # text
        /\ dom' = [dom EXCEPT !.refineInput = text]
        /\ UNCHANGED << state, api, storage, localStorage, initPc, gen, net, clock, returned,
                        changes, probe, refining, persisted >>

MaxIndex(images) ==
    IF Len(images) = 0 THEN 0
    ELSE CHOOSE m \in { images[k].index : k \in 1..Len(images) } :
            \A k \in 1..Len(images) : images[k].index <= m

\* handleRefine up to the await of generateImage
HandleRefine ==
    /\ ~dom.editModalHidden
    /\ dom.refineInput # ""
    /\ HasImage(state.generatedImages, state.editingIndex)
    /\ refining.started < MaxRefines
    /\ dom' = [dom EXCEPT !.editModalHidden = TRUE]
    /\ refining' = [calls |-> refining.calls \cup
                        { [newIndex |-> MaxIndex(state.generatedImages) + 1,
                           baseImage |-> FindImage(state.generatedImages, state.editingIndex),
                           call |-> refining.started + 1] },
                    started |-> refining.started + 1]
    /\ net' = net \cup { ApiPost(api) }
    /\ UNCHANGED << state, api, storage, localStorage, initPc, gen, clock, returned, changes,
                    probe, persisted >>

\* generateImage returns to a refinement:
\* updateResultItem(newIndex, imageUrl, state.currentHistoryId)
RefineOk ==
    \E r \in refining.calls, imageUrl \in Urls :
        LET updated == updateResultItem(state, r.newIndex, imageUrl, state.currentHistoryId)
            calls   == refining.calls \ {r}
        IN  /\ state' = updated
            /\ localStorage' =
                    IF SavesOnUpdate(state, r.newIndex, imageUrl, state.currentHistoryId)
                    THEN LsSaveHistory(localStorage, updated.history)
                    ELSE localStorage
            /\ refining' = [refining EXCEPT !.calls = calls]
            /\ net' = IF calls = {} /\ gen.pc # "request" THEN {} ELSE net
            /\ UNCHANGED << dom, api, storage, initPc, gen, clock, returned, changes, probe, persisted >>

RefineFail ==
    \E r \in refining.calls :
        LET calls == refining.calls \ {r}
        IN  /\ refining' = [refining EXCEPT !.calls = calls]
            /\ net' = IF calls = {} /\ gen.pc # "request" THEN {} ELSE net
            /\ UNCHANGED << state, dom, api, storage, localStorage, initPc, gen, clock,
                            returned, changes, probe, persisted >>

\* The state after init() of this build, loadHistory included, with the form
\* filled in: a category, a prompt and a count.
RefineInit ==
    /\ \E legacy \in LegacyLists, count \in 1..MaxCount, key \in Keys :
        /\ state = [StateInit(key) EXCEPT !.category = FilledForm.category,
                                          !.count = count, !.history = legacy]
        /\ api = [apiKey |-> key]
        /\ localStorage = [imageGenHistory |-> legacy, openrouter_key |-> key]
        /\ persisted = Range(legacy)
    /\ dom = [DomInit EXCEPT !.prompt = FilledForm.prompt]
    /\ storage = [db |-> FALSE, store |-> {}, queue |-> << >>, waiting |-> << >>]
    /\ initPc = "done"
    /\ gen = GenIdle
    /\ net = {}
    /\ clock = SessionStart
    /\ returned = {}
    /\ changes = 0
    /\ refining = [calls |-> {}, started |-> 0]
    /\ probe = [op |-> "none"]

RefineNext ==
    \/ LsHandleGenerate
    \/ LsFetchRefsDone
    \/ LsResponseOk
    \/ LsResponseFail
    \/ LsLoadHistoryItem
    \/ LsOpenEditModal
    \/ TypeRefineInstructions
    \/ HandleRefine
    \/ RefineOk
    \/ RefineFail

SpecRefine == RefineInit /\ [][RefineNext]_vars

\* C10 as stated: within each history record no two image entries have the same
\* index.
C10_NoDuplicateIndex ==
    \A h \in 1..Len(state.history) :
        \A j, k \in 1..Len(state.history[h].images) :
            state.history[h].images[j].index = state.history[h].images[k].index => j = k

\* a refinement started while the batch of the record is still running
C10_FailingInput ==
    /\ gen.pc = "request"
    /\ gen.i = 1
    /\ \E r \in refining.calls : r.newIndex = 2
    /\ state.currentHistoryId = gen.historyId


====
